---- MODULE Spec2Model ----
(***************************************************************************)
(* AzuCob backend: the dunning dispatch engine (ChargeService), the boleto *)
(* reconciliation (SyncService.syncEfiBoletos, both variants found in the  *)
(* repository) and the settlement coordinator, as state machines over the  *)
(* persisted tables (receivables, rules, sent e-mails, audit log) and the  *)
(* external systems (GestaoClick ERP, Efi bank, e-mail provider).          *)
(***************************************************************************)
EXTENDS Integers, Sequences, FiniteSets, TLC

VARIABLES
  rules,        \* table ChargeRule: id -> row
  receivables,  \* table Receivable: id -> row
  sentEmails,   \* table SentEmail, in creation order
  auditLog,     \* table AuditLog, in creation order
  outbox,       \* e-mails the provider accepted, in order
  remoteCalls,  \* settle calls received by the ERP and the bank, in order
  run,          \* processAutomaticCharges: one activation per trigger
  budget,       \* how many more requests of each kind the environment issues
  lastManual,   \* outcome of the last sendManualCharge
  lastSettle,   \* outcome of the last settleReceivable
  efiCharges,   \* charges held by the Efi bank (external)
  sync,         \* syncEfiBoletos: the activation in progress
  links,        \* links written by the current reconciliation run, in order
  clients       \* table Client (with its ClientEmail rows): id -> row

vars == <<rules, receivables, sentEmails, auditLog, outbox, remoteCalls, run,
          budget, lastManual, lastSettle, efiCharges, sync, links, clients>>

syncVars == <<efiCharges, sync, links>>

NULL == "null"

(***************************************************************************)
(* Bounds of the model.                                                    *)
(***************************************************************************)
MaxRuns == 2

MaxManual == 1

MaxSettle == 1

MaxSync == 2

MaxErpSync == 1

MaxClientSync == 2

MaxEmails == 3

(***************************************************************************)
(* Generic helpers.                                                        *)
(***************************************************************************)
Range(s) == {s[i] : i \in DOMAIN s}

Perms(S) == {s \in [1..Cardinality(S) -> S] : Range(s) = S}

RECURSIVE Uniq(_)
\* [...new Set(emails)]: first occurrences, in order
Uniq(s) ==
  IF s = <<>> THEN <<>>
  ELSE LET h == s[Len(s)]
           t == Uniq(SubSeq(s, 1, Len(s) - 1))
       IN IF h \in Range(t) THEN t ELSE Append(t, h)

(***************************************************************************)
(* Tables of the dispatch engine.                                          *)
(***************************************************************************)
RuleIds == {"rule-d7", "rule-d15", "rule-x7"}

TemplateIds == {"default-template", "urgent-template"}

RecIds == {"R1", "R2"}

\* the receivable table in row order
RecOrder == <<"R1", "R2">>

ClientIds == {"c1", "c2"}

Runners == {"cron", "route"}

\* seed rules D+7 and D+15, and a second rule created for the 7-day tier
SeedRules ==
  [r \in RuleIds |->
     CASE r = "rule-d7"  -> [daysOverdue |-> 7, templateId |-> "default-template",
                             isActive |-> TRUE, sendBoleto |-> TRUE, sendInvoice |-> FALSE]
       [] r = "rule-d15" -> [daysOverdue |-> 15, templateId |-> "urgent-template",
                             isActive |-> TRUE, sendBoleto |-> FALSE, sendInvoice |-> FALSE]
       [] OTHER          -> [daysOverdue |-> 7, templateId |-> "urgent-template",
                             isActive |-> FALSE, sendBoleto |-> FALSE, sendInvoice |-> FALSE]]

\* "no applicable rule" (undefined in the source)
NoRule == [id |-> NULL, daysOverdue |-> 0, templateId |-> NULL,
           sendBoleto |-> FALSE, sendInvoice |-> FALSE]

\* what the loop did with the receivable it handled last
NoCur == [receivableId |-> NULL, daysOverdue |-> 0, rule |-> NoRule, emails |-> <<>>,
          attachments |-> {}, sent |-> FALSE, outcome |-> "none"]

IdleRun == [pc |-> "idle", rules |-> <<>>, queue |-> <<>>, cur |-> NoCur,
            stats |-> [sent |-> 0, failed |-> 0]]

(***************************************************************************)
(* ChargeService.processAutomaticCharges                                   *)
(***************************************************************************)
\* prisma.chargeRule.findMany({where: {isActive: true}, orderBy: {daysOverdue: 'asc'}})
\* the order among equal thresholds is the database's choice
ActiveRulesAsc ==
  LET act == {r \in DOMAIN rules : rules[r].isActive}
  IN {s \in Perms(act) :
        \A i, j \in DOMAIN s : i < j => rules[s[i]].daysOverdue <= rules[s[j]].daysOverdue}

RuleSnapshot(r) ==
  [id |-> r, daysOverdue |-> rules[r].daysOverdue, templateId |-> rules[r].templateId,
   sendBoleto |-> rules[r].sendBoleto, sendInvoice |-> rules[r].sendInvoice]

\* prisma.receivable.findMany({where: {status: 'OVERDUE', daysOverdue: {gt: 0}}, include client})
OverdueIds == {r \in RecIds : receivables[r].status = "OVERDUE" /\ receivables[r].daysOverdue > 0}

\* a result that lists every row twice
OverdueQueue_twice ==
  LET IsOverdue(r) == r \in OverdueIds
  IN SelectSeq(RecOrder, IsOverdue) \o SelectSeq(RecOrder, IsOverdue)

\* the query has no orderBy: the rows come back in table order
OverdueQueue ==
  LET IsOverdue(r) == r \in OverdueIds
  IN SelectSeq(RecOrder, IsOverdue)

RecSnapshot(r) ==
  [id |-> r, clientId |-> receivables[r].clientId,
   daysOverdue |-> receivables[r].daysOverdue,
   efiChargeId |-> receivables[r].efiChargeId,
   gestaoClickId |-> receivables[r].gestaoClickId,
   primaryEmail |-> clients[receivables[r].clientId].primaryEmail,
   additionalEmails |-> clients[receivables[r].clientId].additionalEmails]

\* the first qualifying rule instead of the last: shift() for pop()
applicableRule_shift(rs, d) ==
  LET Qualifies(r) == r.daysOverdue <= d
      f == SelectSeq(rs, Qualifies)
  IN IF f = <<>> THEN NoRule ELSE f[1]

\* rules.filter((r) => r.daysOverdue <= receivable.daysOverdue).pop()
applicableRule(rs, d) ==
  LET Qualifies(r) == r.daysOverdue <= d
      f == SelectSeq(rs, Qualifies)
  IN IF f = <<>> THEN NoRule ELSE f[Len(f)]

\* the dedup query asking for the wrong status
alreadySent_failed(recId, ruleId) ==
  \E i \in DOMAIN sentEmails :
     /\ sentEmails[i].receivableId = recId
     /\ sentEmails[i].ruleId = ruleId
     /\ sentEmails[i].status = "FAILED"

\* prisma.sentEmail.findFirst({where: {receivableId, ruleId, status: 'SENT'}})
alreadySent(recId, ruleId) ==
  \E i \in DOMAIN sentEmails :
     /\ sentEmails[i].receivableId = recId
     /\ sentEmails[i].ruleId = ruleId
     /\ sentEmails[i].status = "SENT"

\* the additional e-mails taken whether active or not
clientEmails_all(primaryEmail, additionalEmails) ==
  (IF primaryEmail # NULL THEN <<primaryEmail>> ELSE <<>>)
    \o [i \in DOMAIN additionalEmails |-> additionalEmails[i].email]

\* primary e-mail, if any, followed by the active additional e-mails
clientEmails(primaryEmail, additionalEmails) ==
  LET IsActive(e) == e.active
      act == SelectSeq(additionalEmails, IsActive)
  IN (IF primaryEmail # NULL THEN <<primaryEmail>> ELSE <<>>)
       \o [i \in DOMAIN act |-> act[i].email]

\* the attachments a dispatch can end up with: each PDF is fetched only when
\* wanted and the id is known, and a failed fetch yields no attachment
AttachmentChoices(wantBoleto, wantInvoice) ==
  {b \cup i : b \in (IF wantBoleto THEN {{}, {"boleto.pdf"}} ELSE {{}}),
              i \in (IF wantInvoice THEN {{}, {"fatura.pdf"}} ELSE {{}})}

\* the row of a failed send written without its error message
SentEmailRow_noError(recId, clientId, templateId, ruleId, userId, to, att, sent) ==
  [clientId |-> clientId, receivableId |-> recId, templateId |-> templateId,
   ruleId |-> ruleId, sentById |-> userId, toEmails |-> to, attachments |-> att,
   status |-> IF sent THEN "SENT" ELSE "FAILED",
   sentAt |-> IF sent THEN "now" ELSE NULL,
   errorMessage |-> NULL]

SentEmailRow(recId, clientId, templateId, ruleId, userId, to, att, sent) ==
  [clientId |-> clientId, receivableId |-> recId, templateId |-> templateId,
   ruleId |-> ruleId, sentById |-> userId, toEmails |-> to, attachments |-> att,
   status |-> IF sent THEN "SENT" ELSE "FAILED",
   sentAt |-> IF sent THEN "now" ELSE NULL,
   errorMessage |-> IF sent THEN NULL ELSE "Falha no envio do email"]

\* a run is over when the loop has no receivable left; its rule list dies with it
Advance(r) ==
  LET q == Tail(r.queue)
  IN IF q = <<>>
     THEN [r EXCEPT !.queue = q, !.pc = "done", !.rules = <<>>]
     ELSE [r EXCEPT !.queue = q, !.pc = "loop"]

Busy(p) == run[p].pc \in {"loop", "send", "record"}

\* a run that waits for the other caller's run to end
StartRun_exclusive(p) ==
  /\ ~Busy(p)
  /\ \A q \in Runners \ {p} : ~Busy(q)
  /\ budget.runs > 0
  /\ budget' = [budget EXCEPT !.runs = @ - 1]
  /\ \/ run' = [run EXCEPT ![p] = [IdleRun EXCEPT !.pc = "aborted"]]
     \/ /\ ActiveRulesAsc = {<<>>}
        /\ run' = [run EXCEPT ![p] = [IdleRun EXCEPT !.pc = "done"]]
     \/ /\ ActiveRulesAsc # {<<>>}
        /\ \E rs \in ActiveRulesAsc :
             LET q == OverdueQueue
             IN run' = [run EXCEPT ![p] =
                          [IdleRun EXCEPT
                             !.pc = IF q = <<>> THEN "done" ELSE "loop",
                             !.rules = [i \in DOMAIN rs |-> RuleSnapshot(rs[i])],
                             !.queue = [i \in DOMAIN q |-> RecSnapshot(q[i])]]]
  /\ UNCHANGED <<rules, receivables, sentEmails, auditLog, outbox, remoteCalls,
                 lastManual, lastSettle, clients>>
  /\ UNCHANGED syncVars

\* the two findMany calls at the top of the run
StartRun(p) ==
  /\ ~Busy(p)
  /\ budget.runs > 0
  /\ budget' = [budget EXCEPT !.runs = @ - 1]
  /\ \/ run' = [run EXCEPT ![p] = [IdleRun EXCEPT !.pc = "aborted"]]
     \/ /\ ActiveRulesAsc = {<<>>}
        /\ run' = [run EXCEPT ![p] = [IdleRun EXCEPT !.pc = "done"]]
     \/ /\ ActiveRulesAsc # {<<>>}
        /\ \E rs \in ActiveRulesAsc :
             LET q == OverdueQueue
             IN run' = [run EXCEPT ![p] =
                          [IdleRun EXCEPT
                             !.pc = IF q = <<>> THEN "done" ELSE "loop",
                             !.rules = [i \in DOMAIN rs |-> RuleSnapshot(rs[i])],
                             !.queue = [i \in DOMAIN q |-> RecSnapshot(q[i])]]]
  /\ UNCHANGED <<rules, receivables, sentEmails, auditLog, outbox, remoteCalls,
                 lastManual, lastSettle, clients>>
  /\ UNCHANGED syncVars

\* rule selection, the dedup query and the recipient list for the next receivable
SelectStep(p) ==
  /\ run[p].pc = "loop"
  /\ LET rec == Head(run[p].queue)
         rule == applicableRule(run[p].rules, rec.daysOverdue)
         emails == clientEmails(rec.primaryEmail, rec.additionalEmails)
         sel == [NoCur EXCEPT !.receivableId = rec.id, !.daysOverdue = rec.daysOverdue,
                              !.rule = rule, !.emails = emails]
     IN \/ /\ rule.id = NULL
           /\ run' = [run EXCEPT ![p] =
                        Advance([run[p] EXCEPT !.cur = [sel EXCEPT !.outcome = "no_rule"]])]
        \/ /\ rule.id # NULL
           /\ \/ run' = [run EXCEPT ![p] =
                           [run[p] EXCEPT !.pc = "aborted", !.rules = <<>>, !.queue = <<>>,
                                          !.cur = [sel EXCEPT !.outcome = "query_failed"]]]
              \/ /\ alreadySent(rec.id, rule.id)
                 /\ run' = [run EXCEPT ![p] =
                              Advance([run[p] EXCEPT !.cur = [sel EXCEPT !.outcome = "already_sent"]])]
              \/ /\ ~alreadySent(rec.id, rule.id)
                 /\ emails = <<>>
                 /\ run' = [run EXCEPT ![p] =
                              Advance([run[p] EXCEPT !.cur = [sel EXCEPT !.outcome = "no_email"]])]
              \/ /\ ~alreadySent(rec.id, rule.id)
                 /\ emails # <<>>
                 /\ run' = [run EXCEPT ![p] =
                              [run[p] EXCEPT !.pc = "send",
                                             !.cur = [sel EXCEPT !.outcome = "sending"]]]
  /\ UNCHANGED <<rules, receivables, sentEmails, auditLog, outbox, remoteCalls,
                 budget, lastManual, lastSettle, clients>>
  /\ UNCHANGED syncVars

\* the PDF fetches and emailService.sendChargeEmail
SendStep(p) ==
  /\ run[p].pc = "send"
  /\ LET rec == Head(run[p].queue)
         c == run[p].cur
     IN \E att \in AttachmentChoices(c.rule.sendBoleto /\ rec.efiChargeId # NULL,
                                     c.rule.sendInvoice /\ rec.gestaoClickId # NULL),
           sent \in BOOLEAN :
          /\ run' = [run EXCEPT ![p] =
                       [run[p] EXCEPT !.pc = "record",
                                      !.cur = [c EXCEPT !.attachments = att, !.sent = sent]]]
          /\ outbox' = IF sent
                       THEN Append(outbox, [receivableId |-> rec.id, ruleId |-> c.rule.id,
                                            to |-> c.emails])
                       ELSE outbox
  /\ UNCHANGED <<rules, receivables, sentEmails, auditLog, remoteCalls,
                 budget, lastManual, lastSettle, clients>>
  /\ UNCHANGED syncVars

\* a run that counts the delivery before the row is written
RecordStep_countFirst(p) ==
  /\ run[p].pc = "record"
  /\ LET rec == Head(run[p].queue)
         c == run[p].cur
     IN \/ /\ sentEmails' = Append(sentEmails,
                               SentEmailRow(rec.id, rec.clientId, c.rule.templateId,
                                            c.rule.id, NULL, c.emails, c.attachments, c.sent))
           /\ run' = [run EXCEPT ![p] =
                        Advance([run[p] EXCEPT
                                   !.cur = [c EXCEPT !.outcome = IF c.sent THEN "sent" ELSE "failed"],
                                   !.stats = IF c.sent
                                             THEN [@ EXCEPT !.sent = @ + 1]
                                             ELSE [@ EXCEPT !.failed = @ + 1]])]
        \/ /\ sentEmails' = sentEmails
           /\ run' = [run EXCEPT ![p] =
                        Advance([run[p] EXCEPT
                                   !.cur = [c EXCEPT !.outcome = "error"],
                                   !.stats = IF c.sent
                                             THEN [@ EXCEPT !.sent = @ + 1]
                                             ELSE [@ EXCEPT !.failed = @ + 1]])]
  /\ UNCHANGED <<rules, receivables, auditLog, outbox, remoteCalls,
                 budget, lastManual, lastSettle, clients>>
  /\ UNCHANGED syncVars

\* prisma.sentEmail.create and the counters; a failed write lands in the catch
RecordStep(p) ==
  /\ run[p].pc = "record"
  /\ LET rec == Head(run[p].queue)
         c == run[p].cur
     IN \/ /\ sentEmails' = Append(sentEmails,
                               SentEmailRow(rec.id, rec.clientId, c.rule.templateId,
                                            c.rule.id, NULL, c.emails, c.attachments, c.sent))
           /\ run' = [run EXCEPT ![p] =
                        Advance([run[p] EXCEPT
                                   !.cur = [c EXCEPT !.outcome = IF c.sent THEN "sent" ELSE "failed"],
                                   !.stats = IF c.sent
                                             THEN [@ EXCEPT !.sent = @ + 1]
                                             ELSE [@ EXCEPT !.failed = @ + 1]])]
        \/ /\ sentEmails' = sentEmails
           /\ run' = [run EXCEPT ![p] =
                        Advance([run[p] EXCEPT
                                   !.cur = [c EXCEPT !.outcome = "error"],
                                   !.stats = [@ EXCEPT !.failed = @ + 1]])]
  /\ UNCHANGED <<rules, receivables, auditLog, outbox, remoteCalls,
                 budget, lastManual, lastSettle, clients>>
  /\ UNCHANGED syncVars

processAutomaticCharges(p) ==
  \/ StartRun(p)
  \/ SelectStep(p)
  \/ SendStep(p)
  \/ RecordStep(p)

(***************************************************************************)
(* ChargeService.sendManualCharge                                          *)
(***************************************************************************)
ManualResult(recId, templateId, additionalEmails, result) ==
  [receivableId |-> recId, templateId |-> templateId,
   additionalEmails |-> additionalEmails, result |-> result]

\* a manual path that honours the dedup record of the automatic path
sendManualCharge_dedup(recId, templateId, userId, additionalEmails) ==
  /\ budget.manual > 0
  /\ budget' = [budget EXCEPT !.manual = @ - 1]
  /\ IF recId \notin RecIds
     THEN /\ lastManual' = ManualResult(recId, templateId, additionalEmails,
                                        "Conta nao encontrada")
          /\ UNCHANGED <<sentEmails, outbox>>
     ELSE IF templateId \notin TemplateIds
     THEN /\ lastManual' = ManualResult(recId, templateId, additionalEmails,
                                        "Template nao encontrado")
          /\ UNCHANGED <<sentEmails, outbox>>
     ELSE
       LET rec == receivables[recId]
           cl == clients[rec.clientId]
           uniqueEmails == Uniq(additionalEmails
                                  \o clientEmails(cl.primaryEmail, cl.additionalEmails))
       IN IF \E r \in RuleIds : alreadySent(recId, r)
          THEN /\ lastManual' = ManualResult(recId, templateId, additionalEmails,
                                             "Ja enviado")
               /\ UNCHANGED <<sentEmails, outbox>>
          ELSE IF uniqueEmails = <<>>
          THEN /\ lastManual' = ManualResult(recId, templateId, additionalEmails,
                                             "Nenhum email disponivel")
               /\ UNCHANGED <<sentEmails, outbox>>
          ELSE \E att \in AttachmentChoices(rec.efiChargeId # NULL, rec.gestaoClickId # NULL),
                  sent \in BOOLEAN :
                 /\ outbox' = IF sent
                              THEN Append(outbox, [receivableId |-> recId, ruleId |-> NULL,
                                                   to |-> uniqueEmails])
                              ELSE outbox
                 /\ sentEmails' = Append(sentEmails,
                                     SentEmailRow(recId, rec.clientId, templateId, NULL,
                                                  userId, uniqueEmails, att, sent))
                 /\ lastManual' = ManualResult(recId, templateId, additionalEmails,
                                               IF sent THEN "sent" ELSE "failed")
  /\ UNCHANGED <<rules, receivables, auditLog, remoteCalls, run, lastSettle, clients>>
  /\ UNCHANGED syncVars

sendManualCharge(recId, templateId, userId, additionalEmails) ==
  /\ budget.manual > 0
  /\ budget' = [budget EXCEPT !.manual = @ - 1]
  /\ IF recId \notin RecIds
     THEN /\ lastManual' = ManualResult(recId, templateId, additionalEmails,
                                        "Conta nao encontrada")
          /\ UNCHANGED <<sentEmails, outbox>>
     ELSE IF templateId \notin TemplateIds
     THEN /\ lastManual' = ManualResult(recId, templateId, additionalEmails,
                                        "Template nao encontrado")
          /\ UNCHANGED <<sentEmails, outbox>>
     ELSE
       LET rec == receivables[recId]
           cl == clients[rec.clientId]
           uniqueEmails == Uniq(additionalEmails
                                  \o clientEmails(cl.primaryEmail, cl.additionalEmails))
       IN IF uniqueEmails = <<>>
          THEN /\ lastManual' = ManualResult(recId, templateId, additionalEmails,
                                             "Nenhum email disponivel")
               /\ UNCHANGED <<sentEmails, outbox>>
          ELSE \E att \in AttachmentChoices(rec.efiChargeId # NULL, rec.gestaoClickId # NULL),
                  sent \in BOOLEAN :
                 /\ outbox' = IF sent
                              THEN Append(outbox, [receivableId |-> recId, ruleId |-> NULL,
                                                   to |-> uniqueEmails])
                              ELSE outbox
                 /\ sentEmails' = Append(sentEmails,
                                     SentEmailRow(recId, rec.clientId, templateId, NULL,
                                                  userId, uniqueEmails, att, sent))
                 /\ lastManual' = ManualResult(recId, templateId, additionalEmails,
                                               IF sent THEN "sent" ELSE "failed")
  /\ UNCHANGED <<rules, receivables, auditLog, remoteCalls, run, lastSettle, clients>>
  /\ UNCHANGED syncVars

(***************************************************************************)
(* ChargeService.settleReceivable, one step per awaited call               *)
(***************************************************************************)
\* GestaoClickService.settleReceivable and EfiService.settleCharge: the PUT
\* either succeeds or fails; both adapters catch the failure and return false
SettleCall(system, id, ok) == [system |-> system, id |-> id, ok |-> ok]

IdleSettle == [receivableId |-> NULL, paidValue |-> 0, paidAt |-> NULL, userId |-> NULL,
               calls |-> <<>>, pc |-> "idle", result |-> "none"]

SettleBusy == lastSettle.pc \in {"erp", "efi", "update", "audit"}

\* prisma.receivable.findUnique and the rejection of an unknown receivable
SettleStart(recId, paidValue, paidAt, userId) ==
  /\ ~SettleBusy
  /\ budget.settle > 0
  /\ budget' = [budget EXCEPT !.settle = @ - 1]
  /\ LET req == [IdleSettle EXCEPT !.receivableId = recId, !.paidValue = paidValue,
                                   !.paidAt = paidAt, !.userId = userId]
     IN lastSettle' = IF recId \notin RecIds
                      THEN [req EXCEPT !.pc = "done", !.result = "Conta nao encontrada"]
                      ELSE [req EXCEPT !.pc = "erp"]
  /\ UNCHANGED <<rules, receivables, sentEmails, auditLog, outbox, remoteCalls, run,
                 lastManual, clients>>
  /\ UNCHANGED syncVars

\* if (receivable.gestaoClickId) await gestaoClickService.settleReceivable(...)
SettleErpStep ==
  /\ lastSettle.pc = "erp"
  /\ LET rec == receivables[lastSettle.receivableId]
     IN IF rec.gestaoClickId = NULL
        THEN /\ lastSettle' = [lastSettle EXCEPT !.pc = "efi"]
             /\ UNCHANGED remoteCalls
        ELSE \E ok \in BOOLEAN :
               LET call == SettleCall("gestaoClick", rec.gestaoClickId, ok)
               IN /\ remoteCalls' = Append(remoteCalls, call)
                  /\ lastSettle' = [lastSettle EXCEPT !.pc = "efi", !.calls = Append(@, call)]
  /\ UNCHANGED <<rules, receivables, sentEmails, auditLog, outbox, run, budget,
                 lastManual, clients>>
  /\ UNCHANGED syncVars

\* if (receivable.efiChargeId) await efiService.settleCharge(...)
SettleEfiStep ==
  /\ lastSettle.pc = "efi"
  /\ LET rec == receivables[lastSettle.receivableId]
     IN IF rec.efiChargeId = NULL
        THEN /\ lastSettle' = [lastSettle EXCEPT !.pc = "update"]
             /\ UNCHANGED remoteCalls
        ELSE \E ok \in BOOLEAN :
               LET call == SettleCall("efi", rec.efiChargeId, ok)
               IN /\ remoteCalls' = Append(remoteCalls, call)
                  /\ lastSettle' = [lastSettle EXCEPT !.pc = "update", !.calls = Append(@, call)]
  /\ UNCHANGED <<rules, receivables, sentEmails, auditLog, outbox, run, budget,
                 lastManual, clients>>
  /\ UNCHANGED syncVars

\* the local update placed before the remote calls
SettleUpdateStep_early ==
  /\ lastSettle.pc \in {"erp", "efi", "update"}
  /\ receivables' = [receivables EXCEPT ![lastSettle.receivableId] =
                       [@ EXCEPT !.status = "PAID", !.paidAt = lastSettle.paidAt,
                                 !.paidValue = lastSettle.paidValue]]
  /\ lastSettle' = [lastSettle EXCEPT !.pc = "audit"]
  /\ UNCHANGED <<rules, sentEmails, auditLog, outbox, remoteCalls, run, budget,
                 lastManual, clients>>
  /\ UNCHANGED syncVars

\* prisma.receivable.update to PAID; a failed write is rethrown
SettleUpdateStep ==
  /\ lastSettle.pc = "update"
  /\ \/ /\ receivables' = [receivables EXCEPT ![lastSettle.receivableId] =
                             [@ EXCEPT !.status = "PAID", !.paidAt = lastSettle.paidAt,
                                       !.paidValue = lastSettle.paidValue]]
        /\ lastSettle' = [lastSettle EXCEPT !.pc = "audit"]
     \/ /\ lastSettle' = [lastSettle EXCEPT !.pc = "done", !.result = "error"]
        /\ UNCHANGED receivables
  /\ UNCHANGED <<rules, sentEmails, auditLog, outbox, remoteCalls, run, budget,
                 lastManual, clients>>
  /\ UNCHANGED syncVars

\* prisma.auditLog.create; a failed write is rethrown
SettleAuditStep ==
  /\ lastSettle.pc = "audit"
  /\ \/ /\ auditLog' = Append(auditLog,
                          [userId |-> lastSettle.userId, action |-> "SETTLE_RECEIVABLE",
                           entityId |-> lastSettle.receivableId,
                           paidValue |-> lastSettle.paidValue, paidAt |-> lastSettle.paidAt])
        /\ lastSettle' = [lastSettle EXCEPT !.pc = "done", !.result = "ok"]
     \/ /\ lastSettle' = [lastSettle EXCEPT !.pc = "done", !.result = "error"]
        /\ UNCHANGED auditLog
  /\ UNCHANGED <<rules, receivables, sentEmails, outbox, remoteCalls, run, budget,
                 lastManual, clients>>
  /\ UNCHANGED syncVars

settleReceivable(recId, paidValue, paidAt, userId) ==
  \/ SettleStart(recId, paidValue, paidAt, userId)
  \/ SettleErpStep
  \/ SettleEfiStep
  \/ SettleUpdateStep
  \/ SettleAuditStep

(***************************************************************************)
(* RuleController.toggleActive                                             *)
(***************************************************************************)
toggleActive(id) ==
  /\ id \in DOMAIN rules
  /\ rules' = [rules EXCEPT ![id] = [@ EXCEPT !.isActive = ~@]]
  /\ UNCHANGED <<receivables, sentEmails, auditLog, outbox, remoteCalls, run, budget,
                 lastManual, lastSettle, clients>>
  /\ UNCHANGED syncVars

\* what the rule requests leave alone
RuleFrame ==
  /\ UNCHANGED <<receivables, sentEmails, auditLog, outbox, remoteCalls, run, budget,
                 lastManual, lastSettle, clients>>
  /\ UNCHANGED syncVars

\* "field absent" in the body of an update (a threshold of 0 stands for an
\* absent threshold: the schema admits none below 1)
Absent == "absent"

Thresholds == {7, 15}

\* POST /rules: rejected when the template is unknown or an active rule has
\* the threshold; the new row takes the next free id
create(id, data) ==
  /\ id \notin DOMAIN rules
  /\ data.templateId \in TemplateIds
  /\ ~\E r \in DOMAIN rules :
        rules[r].daysOverdue = data.daysOverdue /\ rules[r].isActive
  /\ rules' = [r \in DOMAIN rules \cup {id} |-> IF r = id THEN data ELSE rules[r]]
  /\ RuleFrame

\* PUT /rules/:id: the conflict check runs only when the threshold changes
update(id, daysOverdue, isActive) ==
  /\ id \in DOMAIN rules
  /\ (daysOverdue # 0 /\ daysOverdue # rules[id].daysOverdue)
       => ~\E r \in DOMAIN rules \ {id} :
             rules[r].daysOverdue = daysOverdue /\ rules[r].isActive
  /\ rules' = [rules EXCEPT
                 ![id] = [@ EXCEPT
                            !.daysOverdue = IF daysOverdue = 0 THEN @ ELSE daysOverdue,
                            !.isActive = IF isActive = Absent THEN @ ELSE isActive = "true"]]
  /\ RuleFrame

\* DELETE /rules/:id
delete(id) ==
  /\ id \in DOMAIN rules
  /\ rules' = [r \in DOMAIN rules \ {id} |-> rules[r]]
  /\ RuleFrame

(***************************************************************************)
(* SyncService.syncReceivables                                             *)
(***************************************************************************)
\* new Date(): the day the synchronisation runs
Today == 26

\* a record of GET /recebimentos for a receivable the database knows: the
\* ERP reports it as open ('0') or as settled ('1')
ErpRecord(r, liquidado) ==
  [id |-> receivables[r].gestaoClickId, descricao |-> receivables[r].description,
   valor |-> receivables[r].value, valor_total |-> receivables[r].value,
   data_vencimento |-> receivables[r].dueDate,
   data_liquidacao |-> IF liquidado = "1" THEN "2026-01-19" ELSE NULL,
   liquidado |-> liquidado]

\* receivableData: the ERP's flag decides the status, the due date the days
\* overdue; the charge id and the billet link are not part of it
UpsertRow(row, rec) ==
  LET daysOverdue == Today - rec.data_vencimento
  IN [row EXCEPT
        !.description = rec.descricao,
        !.value = rec.valor,
        !.dueDate = rec.data_vencimento,
        !.status = IF rec.liquidado = "1" THEN "PAID"
                   ELSE IF daysOverdue > 0 THEN "OVERDUE" ELSE "PENDING",
        !.daysOverdue = IF daysOverdue > 0 THEN daysOverdue ELSE 0,
        !.paidAt = rec.data_liquidacao,
        !.paidValue = IF rec.liquidado = "1" THEN rec.valor_total ELSE NULL]

\* the PUT /recebimentos/:id of a settlement has gone through for the receivable
ErpSettled(r) ==
  \E i \in DOMAIN remoteCalls :
     /\ remoteCalls[i].system = "gestaoClick"
     /\ remoteCalls[i].id = receivables[r].gestaoClickId
     /\ remoteCalls[i].ok

\* the whole run: the ERP lists some of the known receivables, each as open or
\* settled (never as open once a settlement has reached the ERP), and each
\* listed one is written unless its write fails; a failed listing changes nothing
syncReceivables ==
  /\ budget.erp > 0
  /\ budget' = [budget EXCEPT !.erp = @ - 1]
  /\ \E listed \in [RecIds -> {"absent", "0", "1", "error"}] :
       /\ \A r \in RecIds : ErpSettled(r) => listed[r] # "0"
       /\ receivables' = [r \in RecIds |->
                         IF listed[r] \in {"0", "1"}
                         THEN UpsertRow(receivables[r], ErpRecord(r, listed[r]))
                         ELSE receivables[r]]
  /\ UNCHANGED <<rules, sentEmails, auditLog, outbox, remoteCalls, run,
                 lastManual, lastSettle, clients>>
  /\ UNCHANGED syncVars

(***************************************************************************)
(* Values the reconciliation compares.  Amounts are kept in cents, dates   *)
(* as day numbers, texts as sequences of characters.                       *)
(***************************************************************************)
\* a charge without a banking billet has no expiry date
NoDate == 0 - 1

Abs(n) == IF n < 0 THEN 0 - n ELSE n

LowerChar(ch) ==
  CASE ch = "L" -> "l"
    [] ch = "X" -> "x"
    [] ch = "Z" -> "z"
    [] OTHER -> ch

toLowerCase(s) == IF s = <<>> THEN <<>> ELSE [i \in DOMAIN s |-> LowerChar(s[i])]

\* String.prototype.includes: t occurs in s; the empty text occurs in every text
includes(s, t) == \E i \in 0..(Len(s) - Len(t)) : SubSeq(s, i + 1, i + Len(t)) = t

\* replace(/\D/g, '')
Digits(s) ==
  LET IsDigit(ch) == ch \in {"0", "1", "2", "3", "4", "5", "6", "7", "8", "9"}
  IN SelectSeq(s, IsDigit)

\* charge_id.toString(), over the charge ids of the model
ChargeIdString(n) ==
  CASE n = 101 -> "101"
    [] n = 201 -> "201"
    [] n = 202 -> "202"

(***************************************************************************)
(* Math.abs(charge.total / 100 - Number(rec.value)) < 0.10 in IEEE-754     *)
(* doubles.  The double nearest to c/100 is c/100 + RoundErr(c) / 25 units *)
(* in the last place, a unit being 2^(Exp2(c) - 52); the literal 0.10 is   *)
(* 0.1 + 10/25 units of 2^-56; two amounts 10 cents apart subtract without *)
(* rounding.  Amounts are at least 1.00 and below 2^21.                    *)
(***************************************************************************)
RECURSIVE Pow2Mod25(_)
Pow2Mod25(k) == IF k = 0 THEN 1 ELSE (2 * Pow2Mod25(k - 1)) % 25

\* the binary exponent of c/100
Exp2(c) == CHOOSE p \in 0..20 : 100 * 2^p <= c /\ c < 100 * 2^(p + 1)

RoundErr(c) ==
  LET rem == ((c % 25) * Pow2Mod25(50 - Exp2(c))) % 25
  IN IF rem <= 12 THEN 0 - rem ELSE 25 - rem

\* the tolerance of 10 cents, compared as the doubles compare
valueMatch(total, value) ==
  LET hi == IF total >= value THEN total ELSE value
      lo == IF total >= value THEN value ELSE total
  IN IF hi - lo # 10
     THEN hi - lo < 10
     ELSE RoundErr(hi) * 2^(4 + Exp2(hi)) - RoundErr(lo) * 2^(4 + Exp2(lo)) < 10

(***************************************************************************)
(* SyncService.syncClients: the contact e-mails of a client                *)
(***************************************************************************)
\* gc.contatos as the ERP lists them, run after run: c1 has a contact without
\* tipo_id, a typed one and a telephone number; c2 has one typed contact
ErpContacts ==
  [c \in ClientIds |->
     IF c = "c1"
     THEN <<[tipo_id |-> NULL, contato |-> <<"f", "@", "x">>],
            [tipo_id |-> "1", contato |-> <<"g", "@", "x">>],
            [tipo_id |-> "2", contato |-> <<"9", "9">>]>>
     ELSE <<[tipo_id |-> "1", contato |-> <<"h", "@", "x">>]>>]

\* prisma.clientEmail.deleteMany({where: {clientId, gestaoClickContactId: {not: null}}})
deleteContactRows(rows) ==
  LET Manual(r) == r.gestaoClickContactId = NULL
  IN SelectSeq(rows, Manual)

\* the loop over the contacts: a row is created for every contact with an '@';
\* where the table admits one row per address only, the create of a second
\* one rejects and the catch ends the work on this client
RECURSIVE createContactRows(_, _, _)
createContactRows(rows, contatos, unique) ==
  IF contatos = <<>> THEN rows
  ELSE LET ct == Head(contatos)
       IN IF ~includes(ct.contato, <<"@">>)
          THEN createContactRows(rows, Tail(contatos), unique)
          ELSE IF unique /\ \E i \in DOMAIN rows : rows[i].email = ct.contato
          THEN rows
          ELSE createContactRows(
                 Append(rows, [email |-> ct.contato, active |-> TRUE,
                               gestaoClickContactId |-> ct.tipo_id]),
                 Tail(contatos), unique)

\* the rows of a client after syncClients has handled it
syncContacts(rows, contatos, unique) ==
  IF contatos = <<>> THEN rows
  ELSE createContactRows(deleteContactRows(rows), contatos, unique)

\* one run over all clients; a client whose look-up fails is left as it is.
\* Whether the table admits a second row of one address for a client is
\* decided by the schema, which is either way for the run
syncClients ==
  /\ budget.clientSync > 0
  /\ budget' = [budget EXCEPT !.clientSync = @ - 1]
  /\ \E unique \in BOOLEAN, handled \in SUBSET ClientIds :
       clients' = [c \in ClientIds |->
                     IF c \in handled
                     THEN [clients[c] EXCEPT
                             !.additionalEmails = syncContacts(@, ErpContacts[c], unique)]
                     ELSE clients[c]]
  /\ UNCHANGED <<rules, receivables, sentEmails, auditLog, outbox, remoteCalls, run,
                 lastManual, lastSettle>>
  /\ UNCHANGED syncVars

\* addEmail (POST /clients/:id/emails): a row typed in by a user has no contact id
addEmail(c, email) ==
  /\ c \in ClientIds
  /\ Len(clients[c].additionalEmails) < MaxEmails
  /\ clients' = [clients EXCEPT
                   ![c].additionalEmails =
                      Append(@, [email |-> email, active |-> TRUE,
                                 gestaoClickContactId |-> NULL])]
  /\ UNCHANGED <<rules, receivables, sentEmails, auditLog, outbox, remoteCalls, run,
                 budget, lastManual, lastSettle>>
  /\ UNCHANGED syncVars

(***************************************************************************)
(* The charges of the Efi bank.                                            *)
(***************************************************************************)
\* charge.items?.[0]?.name || ''
ItemName(charge) == IF charge.items = <<>> THEN <<>> ELSE charge.items[1]

\* what a charge of the bank can look like, next to a receivable of 1500.00
\* due on day 10 with ERP id g1, description "L7" and client document 11
ChargeKinds ==
  << [custom_id |-> "g1", items |-> << <<"z">> >>, total |-> 990000, expire_at |-> 40,
      doc |-> <<"9">>],
     [custom_id |-> NULL, items |-> << <<"x", "l", "7">> >>, total |-> 990000, expire_at |-> 40,
      doc |-> <<"9">>],
     [custom_id |-> NULL, items |-> <<>>, total |-> 990000, expire_at |-> 40,
      doc |-> <<"9">>],
     [custom_id |-> NULL, items |-> << <<"z">> >>, total |-> 150009, expire_at |-> 11,
      doc |-> <<"9">>],
     [custom_id |-> NULL, items |-> << <<"z">> >>, total |-> 150010, expire_at |-> 11,
      doc |-> <<"9">>],
     [custom_id |-> NULL, items |-> << <<"z">> >>, total |-> 150000, expire_at |-> 12,
      doc |-> <<"9">>],
     [custom_id |-> NULL, items |-> << <<"z">> >>, total |-> 150000, expire_at |-> 13,
      doc |-> <<"9">>],
     [custom_id |-> NULL, items |-> << <<"z">> >>, total |-> 150000, expire_at |-> NoDate,
      doc |-> <<"9">>],
     [custom_id |-> NULL, items |-> << <<"z">> >>, total |-> 150000, expire_at |-> 40,
      doc |-> <<"1", ".", "1">>],
     [custom_id |-> NULL, items |-> << <<"z">> >>, total |-> 150009, expire_at |-> 13,
      doc |-> <<"1", ".", "1">>],
     [custom_id |-> NULL, items |-> << <<"z">> >>, total |-> 150000, expire_at |-> 14,
      doc |-> <<"1", ".", "1">>],
     [custom_id |-> NULL, items |-> << <<"z">> >>, total |-> 150010, expire_at |-> 11,
      doc |-> <<"1", ".", "1">>],
     [custom_id |-> NULL, items |-> << <<"z">> >>, total |-> 150000, expire_at |-> NoDate,
      doc |-> <<"1", ".", "1">>],
     [custom_id |-> NULL, items |-> << <<"z">> >>, total |-> 150011, expire_at |-> 10,
      doc |-> <<"1", ".", "1">>],
     [custom_id |-> "g2", items |-> << <<"z">> >>, total |-> 150000, expire_at |-> 12,
      doc |-> <<"9">>] >>

BilletLink(id) == IF id = 201 THEN "url-201" ELSE "url-202"

\* a banking billet carries its link and its expiry date together
Charge(id, status, k) ==
  [charge_id |-> id, status |-> status,
   link |-> IF ChargeKinds[k].expire_at = NoDate THEN NULL ELSE BilletLink(id)]
    @@ ChargeKinds[k]

\* the bank holds at most one waiting and one unpaid charge
Bank(a, b) ==
  (IF a = 0 THEN {} ELSE {Charge(201, "waiting", a)})
    \cup (IF b = 0 THEN {} ELSE {Charge(202, "unpaid", b)})

(***************************************************************************)
(* SyncService.syncEfiBoletos: what both variants share.                   *)
(***************************************************************************)
\* tolerance of the value + due-date strategy of the cascade, in days
DateTolerance == 2

\* tolerance of the variant that fetches the charges by client document
DocumentDateTolerance == 3

NoSyncCur == [receivableId |-> NULL, chargeId |-> 0, strategy |-> "none", outcome |-> "none"]

IdleSync == [pc |-> "idle", variant |-> NULL, queue |-> <<>>, groups |-> <<>>,
             pool |-> <<>>, cur |-> NoSyncCur, adapterErrors |-> 0, fetched |-> 0,
             stats |-> [updated |-> 0, errors |-> 0, notFound |-> 0]]

SyncBusy == sync.pc \in {"loop", "group", "match"}

\* every receivable that is PENDING or OVERDUE: the query without its OR clause
NeedingLink_all ==
  LET Needs(r) == receivables[r].status \in {"PENDING", "OVERDUE"}
  IN SelectSeq(RecOrder, Needs)

\* prisma.receivable.findMany({where: {status in [PENDING, OVERDUE],
\*                                     OR: [efiChargeId null, boletoUrl null]}})
NeedingLink ==
  LET Needs(r) == /\ receivables[r].status \in {"PENDING", "OVERDUE"}
                  /\ \/ receivables[r].efiChargeId = NULL
                     \/ receivables[r].boletoUrl = NULL
  IN SelectSeq(RecOrder, Needs)

\* a receivable as the run read it, with its client
SyncSnapshot(r) ==
  [id |-> r, gestaoClickId |-> receivables[r].gestaoClickId,
   description |-> receivables[r].description, value |-> receivables[r].value,
   dueDate |-> receivables[r].dueDate,
   document |-> clients[receivables[r].clientId].document]

\* the charges of one status, in the order the bank lists them
ChargeLists(status) == Perms({c \in efiCharges : c.status = status})

\* Array.prototype.find / findIndex: the first position that passes, 0 for none
FindIndex(pool, Test(_)) ==
  LET hits == {k \in DOMAIN pool : Test(pool[k])}
  IN IF hits = {} THEN 0 ELSE CHOOSE k \in hits : \A j \in hits : k <= j

\* the data of prisma.receivable.update
LinkedRow(row, charge) ==
  [row EXCEPT !.efiChargeId = ChargeIdString(charge.charge_id), !.boletoUrl = charge.link]

LinkEntry(rec, charge, strategy) ==
  [receivableId |-> rec.id, chargeId |-> charge.charge_id, strategy |-> strategy]

(***************************************************************************)
(* syncEfiBoletos, the cascade of four strategies over one pool.           *)
(***************************************************************************)
byCustomId(charge, rec) == charge.custom_id = rec.gestaoClickId

byDescription(charge, rec) ==
  LET itemName == toLowerCase(ItemName(charge))
      descr == toLowerCase(rec.description)
  IN includes(itemName, descr) \/ includes(descr, itemName)

byValueAndDate(charge, rec) ==
  /\ valueMatch(charge.total, rec.value)
  /\ charge.expire_at # NoDate
  /\ Abs(charge.expire_at - rec.dueDate) <= DateTolerance

byDocumentAndValue(charge, rec) ==
  /\ Digits(charge.doc) = Digits(rec.document)
  /\ valueMatch(charge.total, rec.value)

\* the value + due-date strategy consulted before the correlation id
matchCharge_valueFirst(pool, rec) ==
  LET s1(c) == byCustomId(c, rec)
      s2(c) == byDescription(c, rec)
      s3(c) == byValueAndDate(c, rec)
      s4(c) == byDocumentAndValue(c, rec)
      i3 == FindIndex(pool, s3)
      i1 == IF i3 = 0 THEN FindIndex(pool, s1) ELSE 0
      i2 == IF i3 = 0 /\ i1 = 0 /\ rec.description # <<>> THEN FindIndex(pool, s2) ELSE 0
      i4 == IF i1 = 0 /\ i2 = 0 /\ i3 = 0 /\ rec.document # <<>>
            THEN FindIndex(pool, s4) ELSE 0
  IN CASE i3 # 0 -> [idx |-> i3, strategy |-> "value_date"]
       [] i1 # 0 -> [idx |-> i1, strategy |-> "custom_id"]
       [] i2 # 0 -> [idx |-> i2, strategy |-> "description"]
       [] i4 # 0 -> [idx |-> i4, strategy |-> "document_value"]
       [] OTHER -> [idx |-> 0, strategy |-> "none"]

\* matchedCharge after the four find calls, and the strategy that set it
matchCharge(pool, rec) ==
  LET s1(c) == byCustomId(c, rec)
      s2(c) == byDescription(c, rec)
      s3(c) == byValueAndDate(c, rec)
      s4(c) == byDocumentAndValue(c, rec)
      i1 == FindIndex(pool, s1)
      i2 == IF i1 = 0 /\ rec.description # <<>> THEN FindIndex(pool, s2) ELSE 0
      i3 == IF i1 = 0 /\ i2 = 0 THEN FindIndex(pool, s3) ELSE 0
      i4 == IF i1 = 0 /\ i2 = 0 /\ i3 = 0 /\ rec.document # <<>>
            THEN FindIndex(pool, s4) ELSE 0
  IN CASE i1 # 0 -> [idx |-> i1, strategy |-> "custom_id"]
       [] i2 # 0 -> [idx |-> i2, strategy |-> "description"]
       [] i3 # 0 -> [idx |-> i3, strategy |-> "value_date"]
       [] i4 # 0 -> [idx |-> i4, strategy |-> "document_value"]
       [] OTHER -> [idx |-> 0, strategy |-> "none"]

\* a pool that keeps the charge it has just given away
removeCharge_keep(pool, id) == pool

\* allCharges.filter(c => c.charge_id !== matchedCharge.charge_id)
removeCharge(pool, id) ==
  LET Other(c) == c.charge_id # id
  IN SelectSeq(pool, Other)

\* the loop moves on; the run is over after the last receivable
AdvanceSync(y) ==
  LET q == Tail(y.queue)
  IN IF q = <<>>
     THEN [y EXCEPT !.queue = q, !.pool = <<>>, !.pc = "done"]
     ELSE [y EXCEPT !.queue = q]

\* the receivable query and the two getCharges calls (waiting, then unpaid);
\* a failure of any of them ends the run with an exception
StartSync ==
  /\ sync.variant = "cascade"
  /\ ~SyncBusy
  /\ budget.sync > 0
  /\ budget' = [budget EXCEPT !.sync = @ - 1]
  /\ links' = <<>>
  /\ LET fresh == [IdleSync EXCEPT !.variant = sync.variant]
     IN \/ sync' = [fresh EXCEPT !.pc = "aborted"]
        \/ /\ NeedingLink = <<>>
           /\ sync' = [fresh EXCEPT !.pc = "done"]
        \/ /\ NeedingLink # <<>>
           /\ \E w \in ChargeLists("waiting"), u \in ChargeLists("unpaid") :
                sync' = [fresh EXCEPT
                           !.pc = "loop",
                           !.fetched = Len(NeedingLink),
                           !.queue = [i \in DOMAIN NeedingLink |-> SyncSnapshot(NeedingLink[i])],
                           !.pool = w \o u]
  /\ UNCHANGED <<rules, receivables, sentEmails, auditLog, outbox, remoteCalls, run,
                 lastManual, lastSettle, efiCharges, clients>>

\* the body of the loop for one receivable: the four strategies, the update
\* of the receivable and the removal of the charge from the pool
MatchStep ==
  /\ sync.variant = "cascade"
  /\ sync.pc = "loop"
  /\ LET rec == Head(sync.queue)
         m == matchCharge(sync.pool, rec)
     IN IF m.idx = 0
        THEN /\ sync' = AdvanceSync([sync EXCEPT
                          !.cur = [receivableId |-> rec.id, chargeId |-> 0,
                                   strategy |-> "none", outcome |-> "notFound"],
                          !.stats = [@ EXCEPT !.notFound = @ + 1]])
             /\ UNCHANGED <<receivables, links>>
        ELSE LET charge == sync.pool[m.idx]
                 cur == [receivableId |-> rec.id, chargeId |-> charge.charge_id,
                         strategy |-> m.strategy, outcome |-> "updated"]
             IN \/ /\ receivables' = [receivables EXCEPT ![rec.id] = LinkedRow(@, charge)]
                   /\ links' = Append(links, LinkEntry(rec, charge, m.strategy))
                   /\ sync' = AdvanceSync([sync EXCEPT
                                !.cur = cur,
                                !.stats = [@ EXCEPT !.updated = @ + 1],
                                !.pool = removeCharge(@, charge.charge_id)])
                \/ /\ sync' = AdvanceSync([sync EXCEPT
                                !.cur = [cur EXCEPT !.outcome = "error"],
                                !.stats = [@ EXCEPT !.errors = @ + 1]])
                   /\ UNCHANGED <<receivables, links>>
  /\ UNCHANGED <<rules, sentEmails, auditLog, outbox, remoteCalls, run, budget,
                 lastManual, lastSettle, efiCharges, clients>>

syncEfiBoletos == StartSync \/ MatchStep

(***************************************************************************)
(* syncEfiBoletos, the variant that fetches the charges of each client     *)
(* document and matches them by value and due date.                        *)
(***************************************************************************)
\* receivablesByClient: one entry per document, in order of first appearance;
\* a receivable whose client has no document is left out
GroupByDocument(q) ==
  LET HasDocument(r) == r.document # <<>>
      withDoc == SelectSeq(q, HasDocument)
      docs == Uniq([i \in DOMAIN withDoc |-> withDoc[i].document])
  IN [i \in DOMAIN docs |->
        LET OfDoc(r) == r.document = docs[i]
        IN [document |-> docs[i], recs |-> SelectSeq(withDoc, OfDoc)]]

\* EfiService.getChargesByDocument: the waiting and the unpaid charges of the
\* document; a list whose request failed is left out without an error
getChargesByDocument(document, waiting, unpaid, okWaiting, okUnpaid) ==
  LET OfDoc(c) == Digits(c.doc) = Digits(document)
  IN (IF okWaiting THEN SelectSeq(waiting, OfDoc) ELSE <<>>)
       \o (IF okUnpaid THEN SelectSeq(unpaid, OfDoc) ELSE <<>>)

\* charges.find(...): the value within the tolerance and, when the charge has
\* an expiry date, the date within the tolerance
matchByDocument(pool, rec) ==
  LET test(c) == /\ valueMatch(c.total, rec.value)
                 /\ c.expire_at # NoDate
                      => Abs(c.expire_at - rec.dueDate) <= DocumentDateTolerance
  IN [idx |-> FindIndex(pool, test), strategy |-> "value_date"]

\* charges.splice(charges.findIndex(c => (c.id || c.charge_id) === chargeId), 1)
spliceCharge(pool, id) ==
  LET Same(c) == c.charge_id = id
      idx == FindIndex(pool, Same)
  IN IF idx = 0 THEN pool
     ELSE SubSeq(pool, 1, idx - 1) \o SubSeq(pool, idx + 1, Len(pool))

\* the loop over the receivables of a client moves on, then the loop over
\* the clients; the run is over after the last client
AdvanceGroup(y) ==
  LET g == Tail(y.groups)
  IN [y EXCEPT !.groups = g, !.queue = <<>>, !.pool = <<>>,
               !.pc = IF g = <<>> THEN "done" ELSE "group"]

AdvanceMatch(y) ==
  LET q == Tail(y.queue)
  IN IF q = <<>> THEN AdvanceGroup(y) ELSE [y EXCEPT !.queue = q]

\* the receivable query and the grouping by client document
StartSyncByDocument ==
  /\ sync.variant = "document"
  /\ ~SyncBusy
  /\ budget.sync > 0
  /\ budget' = [budget EXCEPT !.sync = @ - 1]
  /\ links' = <<>>
  /\ LET fresh == [IdleSync EXCEPT !.variant = sync.variant]
         groups == GroupByDocument([i \in DOMAIN NeedingLink |-> SyncSnapshot(NeedingLink[i])])
     IN \/ sync' = [fresh EXCEPT !.pc = "aborted"]
        \/ /\ NeedingLink = <<>>
           /\ sync' = [fresh EXCEPT !.pc = "done"]
        \/ /\ NeedingLink # <<>>
           /\ sync' = [fresh EXCEPT !.pc = IF groups = <<>> THEN "done" ELSE "group",
                                    !.fetched = Len(NeedingLink),
                                    !.groups = groups]
  /\ UNCHANGED <<rules, receivables, sentEmails, auditLog, outbox, remoteCalls, run,
                 lastManual, lastSettle, efiCharges, clients>>

\* the charges of the next client; with none, its receivables count as not found;
\* adapterErrors counts the clients for which a request to the bank failed
FetchStep ==
  /\ sync.variant = "document"
  /\ sync.pc = "group"
  /\ LET g == Head(sync.groups)
     IN \E w \in ChargeLists("waiting"), u \in ChargeLists("unpaid"),
           okWaiting \in BOOLEAN, okUnpaid \in BOOLEAN :
          LET charges == getChargesByDocument(g.document, w, u, okWaiting, okUnpaid)
              warned == IF okWaiting /\ okUnpaid THEN 0 ELSE 1
          IN sync' = IF charges = <<>>
                     THEN AdvanceGroup([sync EXCEPT
                                          !.adapterErrors = @ + warned,
                                          !.stats = [@ EXCEPT !.notFound = @ + Len(g.recs)]])
                     ELSE [sync EXCEPT !.pc = "match", !.queue = g.recs, !.pool = charges,
                                       !.adapterErrors = @ + warned]
  /\ UNCHANGED <<rules, receivables, sentEmails, auditLog, outbox, remoteCalls, run, budget,
                 lastManual, lastSettle, efiCharges, links, clients>>

\* the body of the inner loop for one receivable of the client
MatchByDocumentStep ==
  /\ sync.variant = "document"
  /\ sync.pc = "match"
  /\ LET rec == Head(sync.queue)
         m == matchByDocument(sync.pool, rec)
     IN IF m.idx = 0
        THEN /\ sync' = AdvanceMatch([sync EXCEPT
                          !.cur = [receivableId |-> rec.id, chargeId |-> 0,
                                   strategy |-> "none", outcome |-> "notFound"],
                          !.stats = [@ EXCEPT !.notFound = @ + 1]])
             /\ UNCHANGED <<receivables, links>>
        ELSE LET charge == sync.pool[m.idx]
                 cur == [receivableId |-> rec.id, chargeId |-> charge.charge_id,
                         strategy |-> m.strategy, outcome |-> "updated"]
             IN \/ /\ receivables' = [receivables EXCEPT ![rec.id] = LinkedRow(@, charge)]
                   /\ links' = Append(links, LinkEntry(rec, charge, m.strategy))
                   /\ sync' = AdvanceMatch([sync EXCEPT
                                !.cur = cur,
                                !.stats = [@ EXCEPT !.updated = @ + 1],
                                !.pool = spliceCharge(@, charge.charge_id)])
                \/ /\ sync' = AdvanceMatch([sync EXCEPT
                                !.cur = [cur EXCEPT !.outcome = "error"],
                                !.stats = [@ EXCEPT !.errors = @ + 1]])
                   /\ UNCHANGED <<receivables, links>>
  /\ UNCHANGED <<rules, sentEmails, auditLog, outbox, remoteCalls, run, budget,
                 lastManual, lastSettle, efiCharges, clients>>

syncEfiBoletosByDocument == StartSyncByDocument \/ FetchStep \/ MatchByDocumentStep

(***************************************************************************)
(* Dispatch, manual send and settlement over a seeded database.            *)
(***************************************************************************)
Doc11 == <<"1", "1">>

Doc22 == <<"2", "2">>

ReceivableRow(client, gcId, descr, value, due, status, days, chargeId, url) ==
  [clientId |-> client, gestaoClickId |-> gcId, description |-> descr, value |-> value,
   dueDate |-> due, status |-> status, daysOverdue |-> days, efiChargeId |-> chargeId,
   boletoUrl |-> url, paidAt |-> NULL, paidValue |-> NULL]

NoBudget == [runs |-> 0, manual |-> 0, settle |-> 0, sync |-> 0, erp |-> 0, clientSync |-> 0]

\* the seeded database: two overdue receivables of two clients
ChargeTables ==
  /\ rules = SeedRules
  /\ \E mail2 \in {NULL, "c@x"} :
       clients = [c \in ClientIds |->
                    IF c = "c1"
                    THEN [document |-> Doc11, primaryEmail |-> "a@x",
                          additionalEmails |-> <<[email |-> "a@x", active |-> TRUE],
                                                 [email |-> "b@x", active |-> FALSE]>>]
                    ELSE [document |-> Doc22, primaryEmail |-> mail2,
                          additionalEmails |-> <<[email |-> "d@x", active |-> FALSE]>>]]
  /\ \E d2 \in {5, 10} :
       receivables = [r \in RecIds |->
                        IF r = "R1"
                        THEN ReceivableRow("c1", "g1", <<"L", "7">>, 150000, 10, "OVERDUE",
                                           16, "101", "url-101")
                        ELSE ReceivableRow("c2", "g2", <<"L", "8">>, 150000, 10, "OVERDUE",
                                           d2, NULL, NULL)]
  /\ sentEmails = <<>>
  /\ auditLog = <<>>
  /\ outbox = <<>>
  /\ remoteCalls = <<>>
  /\ run = [p \in Runners |-> IdleRun]
  /\ lastManual = ManualResult(NULL, NULL, <<>>, "none")
  /\ lastSettle = IdleSettle
  /\ efiCharges = {}
  /\ sync = IdleSync
  /\ links = <<>>

InitCharge == ChargeTables /\ budget = [NoBudget EXCEPT !.runs = MaxRuns]

InitManual == ChargeTables /\ budget = [NoBudget EXCEPT !.runs = 1, !.manual = MaxManual]

InitSettle == ChargeTables /\ budget = [NoBudget EXCEPT !.runs = 1, !.settle = MaxSettle]

InitRules == ChargeTables /\ budget = NoBudget

\* the scheduled run and the run asked for over the route
InitOverlap == ChargeTables /\ budget = [NoBudget EXCEPT !.runs = MaxRuns]

InitEscalate ==
  ChargeTables /\ budget = [NoBudget EXCEPT !.runs = MaxRuns, !.erp = MaxErpSync]

InitStable ==
  ChargeTables /\ budget = [NoBudget EXCEPT !.runs = 1, !.settle = MaxSettle, !.erp = MaxErpSync]

InitPaid == ChargeTables /\ budget = [NoBudget EXCEPT !.settle = MaxSettle, !.erp = MaxErpSync]

\* the database before a reconciliation: R1 has no charge; R2 belongs to
\* either client and has no charge, a charge without a billet link, or both
SyncTables ==
  /\ rules = SeedRules
  /\ \E doc2 \in {Doc22, <<>>} :
       clients = [c \in ClientIds |->
                    IF c = "c1"
                    THEN [document |-> Doc11, primaryEmail |-> "a@x", additionalEmails |-> <<>>]
                    ELSE [document |-> doc2, primaryEmail |-> "c@x", additionalEmails |-> <<>>]]
  /\ \E client2 \in ClientIds, url2 \in {NULL, "url-101"}, id2 \in {NULL, "101"} :
       /\ url2 # NULL => id2 # NULL
       /\ receivables = [r \in RecIds |->
                           IF r = "R1"
                           THEN ReceivableRow("c1", "g1", <<"L", "7">>, 150000, 10, "OVERDUE",
                                              16, NULL, NULL)
                           ELSE ReceivableRow(client2, "g2", <<"L", "8">>, 150000, 10,
                                              "OVERDUE", 10, id2, url2)]
  /\ sentEmails = <<>>
  /\ auditLog = <<>>
  /\ outbox = <<>>
  /\ remoteCalls = <<>>
  /\ run = [p \in Runners |-> IdleRun]
  /\ lastManual = ManualResult(NULL, NULL, <<>>, "none")
  /\ lastSettle = IdleSettle
  /\ \E a, b \in 0..Len(ChargeKinds) : efiCharges = Bank(a, b)
  /\ \E v \in {"cascade", "document"} : sync = [IdleSync EXCEPT !.variant = v]
  /\ links = <<>>

InitSync == SyncTables /\ budget = [NoBudget EXCEPT !.sync = MaxSync]

\* clients that have no additional e-mail yet
InitClients ==
  /\ SyncTables
  /\ efiCharges = Bank(0, 0)
  /\ sync.variant = "cascade"
  /\ clients["c2"].document = Doc22
  /\ receivables["R2"].clientId = "c2"
  /\ receivables["R2"].efiChargeId = NULL
  /\ budget = [NoBudget EXCEPT !.clientSync = MaxClientSync]

\* one run at a time: the cron job and POST /charges/process do not overlap
NoOtherRun(p) == \A q \in Runners \ {p} : ~Busy(q)

\* A run works on the rules and receivables it read at its start, and a manual
\* send writes no row the dedup query can see: a rule toggle or a manual send
\* during a run acts as one right after it, so both are taken between runs.
Quiet == \A p \in Runners : ~Busy(p)

ManualRequest ==
  \E recId \in RecIds \cup {"R9"}, templateId \in {"default-template", "t9"},
     extra \in {<<>>, <<"a@x", "z@x">>} :
    sendManualCharge(recId, templateId, "u1", extra)

SettleRequest ==
  \E recId \in RecIds \cup {"R9"} : SettleStart(recId, 150000, "2026-01-20", "u1")

ToggleRequest == \E id \in RuleIds : toggleActive(id)

CreateRequest ==
  \E id \in RuleIds, d \in Thresholds, t \in TemplateIds \cup {"no-template"},
     a \in BOOLEAN :
    /\ create(id, [daysOverdue |-> d, templateId |-> t, isActive |-> a,
                   sendBoleto |-> TRUE, sendInvoice |-> TRUE])

UpdateRequest ==
  \E id \in RuleIds, d \in Thresholds \cup {0}, a \in {Absent, "true", "false"} :
    update(id, d, a)

DeleteRequest == \E id \in RuleIds : delete(id)

NextCharge ==
  \/ NoOtherRun("cron") /\ StartRun("cron")
  \/ SelectStep("cron")
  \/ SendStep("cron")
  \/ RecordStep("cron")
  \/ Quiet /\ ToggleRequest

NextManual ==
  \/ NoOtherRun("cron") /\ StartRun("cron")
  \/ SelectStep("cron")
  \/ SendStep("cron")
  \/ RecordStep("cron")
  \/ Quiet /\ ManualRequest

NextSettle ==
  \/ NoOtherRun("cron") /\ StartRun("cron")
  \/ SelectStep("cron")
  \/ SendStep("cron")
  \/ RecordStep("cron")
  \/ SettleRequest
  \/ SettleErpStep
  \/ SettleEfiStep
  \/ SettleUpdateStep
  \/ SettleAuditStep

NextSync ==
  \/ StartSync
  \/ MatchStep
  \/ StartSyncByDocument
  \/ FetchStep
  \/ MatchByDocumentStep

\* the cron job and POST /charges/process call the same method, whenever
NextOverlap ==
  \/ StartRun("cron")
  \/ SelectStep("cron")
  \/ SendStep("cron")
  \/ RecordStep("cron")
  \/ StartRun("route")
  \/ SelectStep("route")
  \/ SendStep("route")
  \/ RecordStep("route")

NextClients ==
  \/ syncClients
  \/ \E c \in ClientIds, email \in {<<"f", "@", "x">>, <<"m", "@", "x">>} : addEmail(c, email)

\* the rules are set up before the first run and stay as they are; between
\* the runs the receivables are synchronised, which brings their days overdue
\* up to date
NextEscalate ==
  \/ (budget.runs = MaxRuns /\ Quiet) /\ ToggleRequest
  \/ NoOtherRun("cron") /\ StartRun("cron")
  \/ SelectStep("cron")
  \/ SendStep("cron")
  \/ RecordStep("cron")
  \/ Quiet /\ syncReceivables

\* a settlement, the ERP synchronisation and an automatic run, one after the
\* other in any order: a run starts before the settlement or after it
NextStable ==
  \/ Quiet /\ SettleRequest
  \/ SettleErpStep
  \/ SettleEfiStep
  \/ SettleUpdateStep
  \/ SettleAuditStep
  \/ syncReceivables
  \/ ~SettleBusy /\ StartRun("cron")
  \/ SelectStep("cron")
  \/ SendStep("cron")
  \/ RecordStep("cron")

\* the rule requests of the administration screen
NextRules ==
  \/ ToggleRequest
  \/ CreateRequest
  \/ UpdateRequest
  \/ DeleteRequest

NextPaid ==
  \/ SettleRequest
  \/ SettleErpStep
  \/ SettleEfiStep
  \/ SettleUpdateStep
  \/ SettleAuditStep
  \/ syncReceivables

\* automatic dispatch, run after run, while rules are switched on and off
SpecCharge == InitCharge /\ [][NextCharge]_vars

\* one automatic run and manual sends
SpecManual == InitManual /\ [][NextManual]_vars

\* one automatic run and settlements
SpecSettle == InitSettle /\ [][NextSettle]_vars

\* automatic runs of two callers, interleaved at their awaited calls
SpecOverlap == InitOverlap /\ [][NextOverlap]_vars

\* client synchronisations while users add e-mail addresses
SpecClients == InitClients /\ [][NextClients]_vars

SpecEscalate == InitEscalate /\ [][NextEscalate]_vars

SpecStable == InitStable /\ [][NextStable]_vars

SpecRules == InitRules /\ [][NextRules]_vars

\* settlements while the receivables are synchronised from the ERP
SpecPaid == InitPaid /\ [][NextPaid]_vars

\* reconciliation runs of either variant of syncEfiBoletos, one after the other
SpecSync == InitSync /\ [][NextSync]_vars

(***************************************************************************)
(* Properties of the dispatch engine.                                      *)
(***************************************************************************)
\* sel is a rule of rs with the greatest threshold not above d, or no rule
\* at all when no threshold of rs is that low
GreatestQualifying(rs, d, sel) ==
  LET Q == {i \in DOMAIN rs : rs[i].daysOverdue <= d}
  IN IF Q = {}
     THEN sel.id = NULL
     ELSE /\ \E i \in Q : rs[i] = sel
          /\ \A i \in Q : rs[i].daysOverdue <= sel.daysOverdue

\* C1: a run reads exactly the active rules, and for each receivable it
\* handles it selects an active rule with the greatest threshold <= the
\* receivable's days overdue; when no threshold is that low it selects none,
\* sends nothing and moves on to the next receivable.
C1_RuleSelection ==
  [][\A p \in Runners :
       /\ (~Busy(p) /\ run'[p].pc = "loop")
            => {run'[p].rules[i].id : i \in DOMAIN run'[p].rules}
                 = {r \in RuleIds : rules[r].isActive}
       /\ (run[p].pc = "loop" /\ run'[p] # run[p])
            => LET rec == Head(run[p].queue)
                   sel == run'[p].cur.rule
               IN /\ run'[p].cur.receivableId = rec.id
                  /\ GreatestQualifying(run[p].rules, rec.daysOverdue, sel)
                  /\ run'[p].pc = "send" => sel.id # NULL
                  /\ sel.id = NULL
                       => /\ run'[p].queue = Tail(run[p].queue)
                          /\ sentEmails' = sentEmails
                          /\ outbox' = outbox]_vars

\* C1 witness: a receivable 10 days overdue is about to be sent the D+7 rule
\* although the D+15 rule is active too
C1_Witness ==
  \E p \in Runners :
    /\ run[p].pc = "send"
    /\ run[p].cur.daysOverdue = 10
    /\ run[p].cur.rule.id = "rule-d7"
    /\ \E i \in DOMAIN run[p].rules : run[p].rules[i].id = "rule-d15"

\* C2: no receivable has two SentEmail rows with status SENT and the same
\* non-null ruleId, however many runs have been made one after the other.
C2_UniqueSentPerTier ==
  \A i, j \in DOMAIN sentEmails :
     (/\ i < j
      /\ sentEmails[i].receivableId = sentEmails[j].receivableId
      /\ sentEmails[i].ruleId = sentEmails[j].ruleId
      /\ sentEmails[i].status = "SENT"
      /\ sentEmails[j].status = "SENT")
       => sentEmails[i].ruleId = NULL

\* C2 witness: a later run meets a receivable whose selected rule already has
\* a SENT row and skips it
C2_Witness ==
  \E p \in Runners :
    /\ run[p].cur.outcome = "already_sent"
    /\ \E i \in DOMAIN sentEmails :
         /\ sentEmails[i].receivableId = run[p].cur.receivableId
         /\ sentEmails[i].ruleId = run[p].cur.rule.id
         /\ sentEmails[i].status = "SENT"

\* the request that produced lastManual had a receivable, a template and a recipient
ManualSendable(m) ==
  /\ m.receivableId \in RecIds
  /\ m.templateId \in TemplateIds
  /\ LET cl == clients[receivables[m.receivableId].clientId]
     IN \/ m.additionalEmails # <<>>
        \/ cl.primaryEmail # NULL
        \/ \E i \in DOMAIN cl.additionalEmails : cl.additionalEmails[i].active

C10_SettleAbortsOnRemoteFailure ==
  [][(\E i \in DOMAIN lastSettle.calls : ~lastSettle.calls[i].ok)
       => /\ lastSettle'.result # "ok"
          /\ receivables' = receivables
          /\ auditLog' = auditLog]_vars

\* the systems a settlement of the receivable has to call, in order
SettleSystems(r) ==
  (IF receivables[r].gestaoClickId # NULL THEN <<"gestaoClick">> ELSE <<>>)
    \o (IF receivables[r].efiChargeId # NULL THEN <<"efi">> ELSE <<>>)

\* C11: a settlement calls the ERP only for a receivable with an ERP id and
\* the bank only for one with a charge id, the ERP before the bank; the
\* receivable is set to PAID with the paid date and value only after both
\* calls, and the audit entry with the acting user is appended only after
\* that update.
C11_SettleOrder ==
  [][LET id == lastSettle.receivableId
         done == [i \in DOMAIN lastSettle.calls |-> lastSettle.calls[i].system]
     IN /\ remoteCalls' # remoteCalls
             => LET call == remoteCalls'[Len(remoteCalls')]
                IN /\ remoteCalls' = Append(remoteCalls, call)
                   /\ receivables' = receivables
                   /\ auditLog' = auditLog
                   /\ lastSettle.pc \in {"erp", "efi"}
                   /\ Append(done, call.system)
                        = SubSeq(SettleSystems(id), 1, Len(done) + 1)
                   /\ call.system = "gestaoClick" => call.id = receivables[id].gestaoClickId
                   /\ call.system = "efi" => call.id = receivables[id].efiChargeId
        /\ receivables' # receivables
             => /\ receivables' = [receivables EXCEPT ![id] =
                                     [@ EXCEPT !.status = "PAID",
                                               !.paidAt = lastSettle.paidAt,
                                               !.paidValue = lastSettle.paidValue]]
                /\ done = SettleSystems(id)
                /\ remoteCalls' = remoteCalls
                /\ auditLog' = auditLog
        /\ auditLog' # auditLog
             => /\ auditLog' = Append(auditLog,
                                 [userId |-> lastSettle.userId,
                                  action |-> "SETTLE_RECEIVABLE", entityId |-> id,
                                  paidValue |-> lastSettle.paidValue,
                                  paidAt |-> lastSettle.paidAt])
                /\ receivables[id].status = "PAID"
                /\ receivables[id].paidAt = lastSettle.paidAt
                /\ receivables[id].paidValue = lastSettle.paidValue
                /\ receivables' = receivables
                /\ remoteCalls' = remoteCalls]_vars

\* C11 witness: the settlement of R1, which has an ERP id and a charge id, has
\* called both systems, set R1 to PAID and written its audit entry
C11_Witness ==
  /\ lastSettle.result = "ok"
  /\ lastSettle.receivableId = "R1"
  /\ Len(lastSettle.calls) = 2
  /\ lastSettle.calls[1].system = "gestaoClick"
  /\ lastSettle.calls[2].system = "efi"
  /\ receivables["R1"].status = "PAID"
  /\ \E i \in DOMAIN auditLog : auditLog[i].entityId = "R1" /\ auditLog[i].userId = "u1"

\* the addresses a dispatch to the client is meant for
ExpectedRecipients(c) ==
  (IF clients[c].primaryEmail # NULL THEN {clients[c].primaryEmail} ELSE {})
    \cup {clients[c].additionalEmails[i].email :
            i \in {j \in DOMAIN clients[c].additionalEmails :
                     clients[c].additionalEmails[j].active}}

\* C19: the recipient list of every dispatch, automatic or manual, holds the
\* client's primary e-mail and active additional e-mails (and, for a manual
\* send, the extra addresses), each address once.
C19_RecipientsUnique ==
  \A i \in DOMAIN sentEmails :
    LET to == sentEmails[i].toEmails
    IN /\ \A j, k \in DOMAIN to : j # k => to[j] # to[k]
       /\ ExpectedRecipients(sentEmails[i].clientId) \subseteq Range(to)
       /\ sentEmails[i].ruleId # NULL
            => Range(to) = ExpectedRecipients(sentEmails[i].clientId)

\* the receivable at the head of the queue belongs to a client with no primary
\* e-mail and no active additional e-mail
NoRecipient(rec) ==
  /\ rec.primaryEmail = NULL
  /\ \A i \in DOMAIN rec.additionalEmails : ~rec.additionalEmails[i].active

\* C18: in automatic dispatch a receivable whose client has no primary e-mail
\* and no active additional e-mail is skipped: no email is sent, no SentEmail
\* row is written and neither counter moves.
C18_NoRecipientSkipped ==
  [][\A p \in Runners :
       (run[p].pc = "loop" /\ run'[p] # run[p] /\ NoRecipient(Head(run[p].queue))) =>
          /\ run'[p].pc # "send"
          /\ run'[p].stats = run[p].stats
          /\ outbox' = outbox
          /\ sentEmails' = sentEmails
          /\ run'[p].pc # "aborted" =>
                \A i \in DOMAIN run'[p].queue :
                   run'[p].queue[i].id # Head(run[p].queue).id]_vars

\* a receivable with an applicable rule and no recipient has been skipped
C18_Witness ==
  \E p \in Runners :
    /\ run[p].cur.outcome = "no_email"
    /\ run[p].cur.rule.id # NULL
    /\ run[p].cur.emails = <<>>
    /\ clients[receivables[run[p].cur.receivableId].clientId].primaryEmail = NULL

\* runner q is between its dedup check and its record for the pair
InFlight(q, recId, ruleId) ==
  /\ run[q].pc \in {"send", "record"}
  /\ run[q].cur.receivableId = recId
  /\ run[q].cur.rule.id = ruleId

\* C20: overlapping runs of processAutomaticCharges are not guarded against
\* each other: a caller can start a run while the other's run is under way,
\* and a run whose dedup check comes while the other run is between its own
\* check and its record for the same (receivable, rule) goes on to send.
C20_OverlappingRunsRace ==
  [][\A p \in Runners : \A q \in Runners \ {p} :
       /\ (Busy(q) /\ ~Busy(p) /\ budget.runs > 0) => ENABLED StartRun(p)
       /\ (run[p].pc = "loop" /\ run'[p] # run[p] /\ run'[p].pc # "aborted") =>
            LET rec == Head(run[p].queue)
                rule == applicableRule(run[p].rules, rec.daysOverdue)
            IN (/\ InFlight(q, rec.id, rule.id)
                /\ ~alreadySent(rec.id, rule.id)
                /\ ~NoRecipient(rec))
                 => run'[p].pc = "send"]_vars

\* both runs have sent for the same (receivable, rule) and recorded SENT
C20_Witness ==
  \E i, j \in DOMAIN sentEmails :
    /\ i < j
    /\ sentEmails[i].status = "SENT"
    /\ sentEmails[j].status = "SENT"
    /\ sentEmails[i].ruleId # NULL
    /\ sentEmails[i].receivableId = sentEmails[j].receivableId
    /\ sentEmails[i].ruleId = sentEmails[j].ruleId
    /\ \E a, b \in DOMAIN outbox :
         /\ a < b
         /\ outbox[a].receivableId = sentEmails[i].receivableId
         /\ outbox[b].receivableId = sentEmails[i].receivableId
         /\ outbox[a].ruleId = sentEmails[i].ruleId
         /\ outbox[b].ruleId = sentEmails[i].ruleId
    /\ run["cron"].stats.sent > 0
    /\ run["route"].stats.sent > 0
    /\ run["cron"].cur.receivableId = run["route"].cur.receivableId

\* C17: the dedup check looks at SENT rows only: a receivable is skipped as
\* already sent exactly when a SENT row of its (receivable, rule) exists, a
\* FAILED row does not keep it from being sent again on a later run, and no
\* email goes out for a pair that has a SENT row.
C17_DedupOnlySent ==
  [][\A p \in Runners :
       /\ (run[p].pc = "loop" /\ run'[p] # run[p] /\ run'[p].pc # "aborted") =>
            LET rec == Head(run[p].queue)
                rule == applicableRule(run[p].rules, rec.daysOverdue)
                sentRow == \E i \in DOMAIN sentEmails :
                              /\ sentEmails[i].receivableId = rec.id
                              /\ sentEmails[i].ruleId = rule.id
                              /\ sentEmails[i].status = "SENT"
            IN rule.id # NULL =>
                 /\ (run'[p].cur.outcome = "already_sent") <=> sentRow
                 /\ (~sentRow /\ clientEmails(rec.primaryEmail, rec.additionalEmails) # <<>>)
                      => run'[p].pc = "send"
       /\ (run[p].pc = "send" /\ outbox' # outbox) =>
            ~\E i \in DOMAIN sentEmails :
                /\ sentEmails[i].receivableId = run[p].cur.receivableId
                /\ sentEmails[i].ruleId = run[p].cur.rule.id
                /\ sentEmails[i].status = "SENT"]_vars

\* a send that failed on one run was repeated on a later run and succeeded
C17_Witness ==
  \E i, j \in DOMAIN sentEmails :
    /\ i < j
    /\ sentEmails[i].status = "FAILED"
    /\ sentEmails[j].status = "SENT"
    /\ sentEmails[i].receivableId = sentEmails[j].receivableId
    /\ sentEmails[i].ruleId = sentEmails[j].ruleId
    /\ \A k \in DOMAIN sentEmails :
         (k # j /\ sentEmails[k].receivableId = sentEmails[j].receivableId
                /\ sentEmails[k].ruleId = sentEmails[j].ruleId)
           => sentEmails[k].status = "FAILED"

\* the step of runner p that records a send the sender reported as failed
RecordsFailedSend(p) ==
  /\ run[p].pc = "record"
  /\ ~run[p].cur.sent
  /\ run'[p] # run[p]

C15_SyncErrorsCounted ==
  [][/\ sync'.adapterErrors > sync.adapterErrors
          => /\ sync'.stats.errors > sync.stats.errors
             /\ sync'.pc # "aborted"
     /\ (sync.pc \in {"loop", "match"} /\ sync'.cur.outcome = "error" /\ sync' # sync)
          => /\ sync'.stats.errors = sync.stats.errors + 1
             /\ sync'.pc # "aborted"]_vars

\* C14: a failure while one receivable is handled never aborts the batch: a
\* run is aborted only by its fetch phase, before any receivable is in hand.
C14_ItemFailureNeverAborts ==
  \A p \in Runners : run[p].pc = "aborted" => run[p].cur.receivableId = NULL

\* C13: at most one active rule exists for any days-overdue threshold, after
\* any sequence of create, update, toggleActive and delete requests.
C13_OneActiveRulePerThreshold ==
  \A a, b \in DOMAIN rules :
    (a # b /\ rules[a].isActive /\ rules[b].isActive)
      => rules[a].daysOverdue # rules[b].daysOverdue

\* C12: a receivable's status becomes PAID only in the update step of a
\* settlement of that receivable; no other operation sets it.
C12_PaidOnlyBySettlement ==
  [][\A r \in RecIds :
       (receivables'[r].status = "PAID" /\ receivables[r].status # "PAID")
         => /\ lastSettle.pc = "update"
            /\ lastSettle.receivableId = r]_vars

\* C21: in one run a receivable gets at most one notification, and only for
\* the rule selected for it, the greatest qualifying one: every email of a run
\* is for the receivable in hand and its selected rule, the receivable does not
\* come up again in the run, and a lower tier is not sent in place of or
\* beside the selected one.
C21_OneNotificationPerRun ==
  [][outbox' # outbox =>
       /\ Len(outbox') = Len(outbox) + 1
       /\ SubSeq(outbox', 1, Len(outbox)) = outbox
       /\ \E p \in Runners :
            LET rec == Head(run[p].queue)
                mail == outbox'[Len(outbox')]
            IN /\ run[p].pc = "send"
               /\ run'[p].pc = "record"
               /\ mail.receivableId = rec.id
               /\ mail.ruleId = run[p].cur.rule.id
               /\ GreatestQualifying(run[p].rules, rec.daysOverdue, run[p].cur.rule)
               /\ \A i \in DOMAIN Tail(run[p].queue) : Tail(run[p].queue)[i].id # rec.id
               /\ ~\E k \in DOMAIN sentEmails :
                     /\ sentEmails[k].receivableId = rec.id
                     /\ sentEmails[k].ruleId = mail.ruleId
                     /\ sentEmails[k].status = "SENT"]_vars

\* the receivable 16 days overdue had its D+7 notification on an earlier run
\* and now has D+15 sent and recorded, with D+7 sent only once
C21_Witness ==
  \E i, j \in DOMAIN sentEmails :
    /\ i < j
    /\ sentEmails[i].receivableId = "R1"
    /\ sentEmails[j].receivableId = "R1"
    /\ receivables["R1"].daysOverdue = 16
    /\ sentEmails[i].ruleId = "rule-d7"
    /\ sentEmails[i].status = "SENT"
    /\ sentEmails[j].ruleId = "rule-d15"
    /\ sentEmails[j].status = "SENT"
    /\ rules["rule-d7"].isActive
    /\ rules["rule-d15"].isActive
    /\ Len(SelectSeq(outbox, LAMBDA m : m.receivableId = "R1" /\ m.ruleId = "rule-d7")) = 1
    /\ Len(SelectSeq(outbox, LAMBDA m : m.receivableId = "R1" /\ m.ruleId = "rule-d15")) = 1

\* C22: every email the sender delivered in automatic dispatch has a SENT row
\* of its (receivable, rule) once its run has passed the record step, so no
\* pair is delivered twice.
C22_DeliveredIsRecorded ==
  /\ \A a \in DOMAIN outbox :
       outbox[a].ruleId # NULL =>
         \/ \E k \in DOMAIN sentEmails :
               /\ sentEmails[k].receivableId = outbox[a].receivableId
               /\ sentEmails[k].ruleId = outbox[a].ruleId
               /\ sentEmails[k].status = "SENT"
         \/ \E p \in Runners :
               /\ run[p].pc = "record"
               /\ run[p].cur.sent
               /\ run[p].cur.receivableId = outbox[a].receivableId
               /\ run[p].cur.rule.id = outbox[a].ruleId
  /\ \A a, b \in DOMAIN outbox :
       (a < b /\ outbox[a].ruleId # NULL /\ outbox[a].ruleId = outbox[b].ruleId)
         => outbox[a].receivableId # outbox[b].receivableId

\* the receivable is PAID with the payment date of a settlement request
PaidBySettlement(r) ==
  /\ receivables[r].status = "PAID"
  /\ receivables[r].paidAt = "2026-01-20"

\* C23: once a settlement has set a receivable to PAID, no later
\* synchronisation or dispatch run changes its status, and no automatic
\* notification is sent for it.
C23_PaidIsStable ==
  [][/\ \A r \in RecIds : PaidBySettlement(r) => receivables'[r].status = "PAID"
     /\ outbox' # outbox =>
          LET mail == outbox'[Len(outbox')]
          IN mail.ruleId # NULL => ~PaidBySettlement(mail.receivableId)]_vars

\* C28: with the active rules fixed and days overdue never decreasing, the
\* SENT rows of a receivable have strictly increasing rule thresholds in the
\* order they were written.
C28_MonotoneEscalation ==
  \A i, j \in DOMAIN sentEmails :
    (/\ i < j
     /\ sentEmails[i].receivableId = sentEmails[j].receivableId
     /\ sentEmails[i].status = "SENT"
     /\ sentEmails[j].status = "SENT"
     /\ sentEmails[i].ruleId # NULL
     /\ sentEmails[j].ruleId # NULL)
      => rules[sentEmails[i].ruleId].daysOverdue < rules[sentEmails[j].ruleId].daysOverdue

\* the same rows, address by address and contact id by contact id
SameRows(a, b) ==
  /\ Len(a) = Len(b)
  /\ \A r \in Range(a) \cup Range(b) :
       Cardinality({i \in DOMAIN a : a[i] = r}) = Cardinality({i \in DOMAIN b : b[i] = r})

\* C29: syncClients is idempotent on the contact e-mails: handling a client a
\* second time with the same ERP contacts leaves the rows of the first time.
C29_SyncClientsIdempotent ==
  \A c \in ClientIds, unique \in BOOLEAN :
    LET once == syncContacts(clients[c].additionalEmails, ErpContacts[c], unique)
    IN SameRows(syncContacts(once, ErpContacts[c], unique), once)

\* C30: the counters of a run agree with the audit trail: a run starts at
\* zero, sent grows by the SENT rows the run writes, and failed grows by one
\* for every receivable whose send was attempted and left no SENT row (the
\* sender reported a failure or the row could not be written), and by nothing
\* else.
C30_StatsAgreeWithAuditTrail ==
  [][\A p \in Runners :
       LET rows == SubSeq(sentEmails', Len(sentEmails) + 1, Len(sentEmails'))
           sentRows == Cardinality({i \in DOMAIN rows : rows[i].status = "SENT"})
           attempted == run[p].pc = "record"
       IN IF Busy(p)
          THEN /\ run'[p].stats.sent = run[p].stats.sent + sentRows
               /\ run'[p].stats.failed =
                    run[p].stats.failed + (IF attempted /\ sentRows = 0 THEN 1 ELSE 0)
          ELSE run'[p] # run[p] => run'[p].stats = [sent |-> 0, failed |-> 0]]_vars

\* a finished run that delivered and recorded one notification and counted a
\* second receivable as failed although its e-mail went out: the row of that
\* one could not be written
C30_Witness ==
  \E p \in Runners :
    /\ run[p].pc = "done"
    /\ run[p].stats = [sent |-> 1, failed |-> 1]
    /\ Len(SelectSeq(sentEmails, LAMBDA row : row.ruleId # NULL)) = 1
    /\ Len(SelectSeq(outbox, LAMBDA mail : mail.ruleId # NULL)) = 2

(***************************************************************************)
(* Properties of the reconciliation.                                       *)
(***************************************************************************)
\* the step handles the receivable at the head of the queue
MatchingHead == sync.pc \in {"loop", "match"} /\ sync' # sync

\* the charge of the bank with this id
ChargeOf(id) == CHOOSE c \in efiCharges : c.charge_id = id

\* the charge alone would be matched to the receivable by the running variant
WouldMatch(c, r) ==
  IF sync.variant = "cascade"
  THEN matchCharge(<<c>>, SyncSnapshot(r)).idx = 1
  ELSE /\ Digits(c.doc) = Digits(SyncSnapshot(r).document)
       /\ matchByDocument(<<c>>, SyncSnapshot(r)).idx = 1

\* C3: within one run a charge that has been linked to a receivable is no
\* longer in the candidate pool, and no two receivables processed in the run
\* are linked to the same charge id.
C3_ConsumedChargeLeavesPool ==
  /\ \A i, j \in DOMAIN links : i < j => links[i].chargeId # links[j].chargeId
  /\ \A i \in DOMAIN links, k \in DOMAIN sync.pool :
       sync.pool[k].charge_id # links[i].chargeId

\* C3 witness: R1 took the only charge that R2 matches as well, and R2, handled
\* after it in the same run, was not found a charge
C3_Witness ==
  /\ Len(links) = 1
  /\ links[1].receivableId = "R1"
  /\ sync.cur.receivableId = "R2"
  /\ sync.cur.outcome = "notFound"
  /\ WouldMatch(ChargeOf(links[1].chargeId), "R2")

DaysAllowed == IF sync.variant = "cascade" THEN 2 ELSE 3

\* C5: a charge whose amount differs from the receivable's value by 0.10 or
\* more is never matched by a value-based strategy, and a charge at most 0.09
\* away is matched when its expiry date is within the tolerance (or, in the
\* cascade, when its customer document is the client's).
C5_ValueToleranceStrict ==
  [][MatchingHead
       => LET rec == Head(sync.queue)
              pool == sync.pool
              cur == sync'.cur
              Cents(c) == Abs(c.total - rec.value)
              InDate(c) == /\ c.expire_at # NoDate
                           /\ Abs(c.expire_at - rec.dueDate) <= DaysAllowed
              SameDoc(c) == /\ sync.variant = "cascade"
                            /\ rec.document # <<>>
                            /\ Digits(c.doc) = Digits(rec.document)
          IN /\ cur.strategy \in {"value_date", "document_value"}
                  => \E k \in DOMAIN pool : /\ pool[k].charge_id = cur.chargeId
                                            /\ Cents(pool[k]) < 10
             /\ (\E k \in DOMAIN pool : /\ Cents(pool[k]) <= 9
                                        /\ InDate(pool[k]) \/ SameDoc(pool[k]))
                  => cur.outcome # "notFound"]_vars

\* C6: a charge is matched by the value + due-date strategy only if it has an
\* expiry date at most 2 days (cascade) or 3 days (fetch by document) from the
\* receivable's due date, and a charge within the value tolerance whose
\* expiry date is that close, the last day of the tolerance included, is
\* matched.
C6_DateToleranceRequired ==
  [][MatchingHead
       => LET rec == Head(sync.queue)
              pool == sync.pool
              cur == sync'.cur
              InDate(c) == /\ c.expire_at # NoDate
                           /\ Abs(c.expire_at - rec.dueDate) <= DaysAllowed
          IN /\ cur.strategy = "value_date"
                  => \E k \in DOMAIN pool : /\ pool[k].charge_id = cur.chargeId
                                            /\ InDate(pool[k])
             /\ (\E k \in DOMAIN pool : /\ Abs(pool[k].total - rec.value) <= 9
                                        /\ InDate(pool[k]))
                  => cur.outcome # "notFound"]_vars

\* C7: when no earlier strategy has a candidate and a charge of the pool has
\* the client's document (digits only on both sides) and a value within the
\* tolerance, the receivable is linked to such a charge, whatever the
\* charge's expiry date.
C7_DocumentAndValue ==
  [][MatchingHead
       => LET rec == Head(sync.queue)
              pool == sync.pool
              cur == sync'.cur
              Earlier(c) == IF sync.variant = "cascade"
                            THEN \/ c.custom_id = rec.gestaoClickId
                                 \/ rec.description # <<>> /\ byDescription(c, rec)
                                 \/ byValueAndDate(c, rec)
                            ELSE /\ valueMatch(c.total, rec.value)
                                 /\ c.expire_at # NoDate
                                 /\ Abs(c.expire_at - rec.dueDate) <= DaysAllowed
              DocValue == {k \in DOMAIN pool :
                             /\ rec.document # <<>>
                             /\ Digits(pool[k].doc) = Digits(rec.document)
                             /\ valueMatch(pool[k].total, rec.value)}
          IN ((\A k \in DOMAIN pool : ~Earlier(pool[k])) /\ DocValue # {})
               => /\ cur.outcome \in {"updated", "error"}
                  /\ \E k \in DocValue : pool[k].charge_id = cur.chargeId
                  /\ cur.outcome = "updated"
                       => receivables'[rec.id].efiChargeId = ChargeIdString(cur.chargeId)]_vars

\* C8: a receivable with both efiChargeId and boletoUrl set is not among the
\* receivables a run starts with, and no step of a reconciliation run changes
\* any field of it.
C8_LinkedReceivableUntouched ==
  [][\A r \in RecIds :
       (receivables[r].efiChargeId # NULL /\ receivables[r].boletoUrl # NULL)
         => /\ receivables'[r] = receivables[r]
            /\ ~SyncBusy
                 => /\ \A i \in DOMAIN sync'.queue : sync'.queue[i].id # r
                    /\ \A g \in DOMAIN sync'.groups :
                         \A i \in DOMAIN sync'.groups[g].recs :
                           sync'.groups[g].recs[i].id # r]_vars

\* C8 witness: a run has linked R1 and ended, R2 still has the charge and the
\* link it had before, and the bank holds another charge that matches R2
C8_Witness ==
  /\ sync.pc = "done"
  /\ Len(links) = 1
  /\ links[1].receivableId = "R1"
  /\ receivables["R2"].efiChargeId = "101"
  /\ receivables["R2"].boletoUrl = "url-101"
  /\ \E c \in efiCharges : c.charge_id # links[1].chargeId /\ WouldMatch(c, "R2")

\* C24: no two receivables carry the same efiChargeId, however many
\* reconciliation runs have been made.
C24_ChargeLinkedOnce ==
  \A r1, r2 \in RecIds :
    (r1 # r2 /\ receivables[r1].efiChargeId # NULL)
      => receivables[r1].efiChargeId # receivables[r2].efiChargeId

\* C25: in a run of the cascade, a charge whose custom_id is the ERP id of a
\* receivable the run has still to handle is linked to that receivable only.
C25_CorrelationIdOwnership ==
  [][(sync.variant = "cascade" /\ sync.pc = "loop" /\ links' # links) =>
       LET rec == Head(sync.queue)
           charge == sync.pool[matchCharge(sync.pool, rec).idx]
       IN \A i \in DOMAIN sync.queue :
            sync.queue[i].gestaoClickId = charge.custom_id => sync.queue[i].id = rec.id]_vars

\* C26: the description strategy never links a charge that has no line item
\* or whose first line item has an empty name.
C26_NoMatchOnEmptyName ==
  \A i \in DOMAIN links :
    links[i].strategy = "description" =>
      \A c \in efiCharges : c.charge_id = links[i].chargeId => ItemName(c) # <<>>

\* C27: when a reconciliation run has returned normally, updated + notFound +
\* errors is the number of receivables it read at its start.
C27_StatsPartition ==
  sync.pc = "done"
    => sync.stats.updated + sync.stats.notFound + sync.stats.errors = sync.fetched

====
